---- MODULE Spec2Model ----
(***************************************************************************)
(* The shader graph of crates/shader_graph/src/graph.rs: a wrapper around  *)
(* petgraph::Graph<Node, u32>.  The wrapped graph is modelled as petgraph  *)
(* stores it: a vector of nodes and a vector of edges, every node heading  *)
(* two singly linked lists of edges (outgoing and incoming), every edge    *)
(* carrying the link to the next edge of each list.  Handles are 0-based   *)
(* positions in the vectors, as in the source.                             *)
(***************************************************************************)
EXTENDS Integers, Sequences, FiniteSets, TLC

\* nodes, edges: the two vectors of the wrapped petgraph graph.
\* panicked:     the program has aborted in a panic.
\* issued:       the handles add_node has returned to the builder.
\* readers:      per reader, the query it is in and the graph it borrowed.
\* result:       what the last query returned.
\* walk:         the consumer's backward walk from the outputs.
\* app:          the event loop of VulkanApp::run (src/lib.rs): the locals
\*               of run and the position in the event handler.
VARIABLES nodes, edges, panicked, issued, readers, result, walk, app

vars == <<nodes, edges, panicked, issued, readers, result, walk, app>>

(* ------------------------------ bounds -------------------------------- *)

\* The builder adds at most MaxNodes nodes and MaxEdges edges, with
\* argument slots in 0..MaxSlot.
MaxNodes == 3
MaxEdges == 3
MaxSlot == 2

\* The number of concurrent readers.
NumReaders == 2

\* The number of events the event loop delivers.
MaxEvents == 4

(* --------------------------- the vocabulary --------------------------- *)

\* TypeName::Vec(3)
Vec3 == <<"Vec", 3>>

\* Node variants, payload included.
Input(binding, ty) == <<"Input", binding, ty>>
Output(binding, ty) == <<"Output", binding, ty>>
Add == <<"Add">>

\* matches!(node, Node::Output(_, _))
IsOutput(node) == node[1] = "Output"

\* petgraph's EdgeDirection: Outgoing = 0, Incoming = 1.
Outgoing == 0
Incoming == 1

\* petgraph's EdgeIndex::end(), the end-of-list marker (no edge has it).
EdgeEnd == 0 - 1

(* ----------------------------- the graph ------------------------------ *)

\* The graph as a value, for the operators below.
Graph(ns, es) == [nodes |-> ns, edges |-> es]

\* Graph::default(): PetGraph::new()
Default == Graph(<<>>, <<>>)

node_count(g) == Len(g.nodes)
edge_count(g) == Len(g.edges)

\* petgraph node_indices(): the indices of the node vector.
node_indices(g) == 0 .. (node_count(g) - 1)

\* g.nodes[h] and g.edges[e] with the source's 0-based indices.
NodeAt(g, h) == g.nodes[h + 1]
EdgeAt(g, e) == g.edges[e + 1]

\* The position of the last node there is, for the position of the new one.
add_node_index_last(g) == IF node_count(g) = 0 THEN 0 ELSE node_count(g) - 1

\* petgraph add_node: push a node heading two empty edge lists; the handle
\* is the node's position.
add_node_index(g) == node_count(g)

\* The new node put in front of the vector, not behind it.
add_node_front(g, node) ==
    Graph(<<[weight |-> node, next |-> [k \in 0..1 |-> EdgeEnd]]>> \o g.nodes,
          g.edges)

add_node(g, node) ==
    Graph(Append(g.nodes,
                 [weight |-> node, next |-> [k \in 0..1 |-> EdgeEnd]]),
          g.edges)

\* The bounds check one too strict: the last node counts as out of bounds.
add_edge_panics_off_by_one(g, from, to) ==
    (IF from >= to THEN from ELSE to) + 1 >= node_count(g)

\* petgraph add_edge panics when an endpoint is out of bounds.
add_edge_panics(g, from, to) ==
    (IF from >= to THEN from ELSE to) >= node_count(g)

\* An add_edge that keeps one edge per pair of endpoints (petgraph's
\* update_edge): a second edge from -> to replaces the slot of the first.
add_edge_update(g, from, to, index) ==
    IF \E i \in 1..edge_count(g) :
            g.edges[i].node[0] = from /\ g.edges[i].node[1] = to
    THEN Graph(g.nodes,
               [i \in 1..edge_count(g) |->
                  IF g.edges[i].node[0] = from /\ g.edges[i].node[1] = to
                  THEN [g.edges[i] EXCEPT !.weight = index]
                  ELSE g.edges[i]])
    ELSE LET edge_idx == edge_count(g)
             edge == [weight |-> index,
                      node |-> [k \in 0..1 |-> IF k = 0 THEN from ELSE to],
                      next |-> [k \in 0..1 |->
                                  IF k = 0 THEN NodeAt(g, from).next[0]
                                  ELSE NodeAt(g, to).next[1]]]
         IN Graph([i \in 1..node_count(g) |->
                     [g.nodes[i] EXCEPT
                        !.next = [k \in 0..1 |->
                                    IF \/ (k = 0 /\ i - 1 = from)
                                       \/ (k = 1 /\ i - 1 = to)
                                    THEN edge_idx ELSE @[k]]]],
                  Append(g.edges, edge))

\* An add_edge that does not link the new edge to the previous heads: the
\* older edges of both lists drop out of the lists.
add_edge_unlinked(g, from, to, index) ==
    LET edge_idx == edge_count(g)
        edge == [weight |-> index,
                 node |-> [k \in 0..1 |-> IF k = 0 THEN from ELSE to],
                 next |-> [k \in 0..1 |-> EdgeEnd]]
    IN Graph([i \in 1..node_count(g) |->
                [g.nodes[i] EXCEPT
                   !.next = [k \in 0..1 |->
                               IF \/ (k = 0 /\ i - 1 = from)
                                  \/ (k = 1 /\ i - 1 = to)
                               THEN edge_idx ELSE @[k]]]],
             Append(g.edges, edge))

\* petgraph add_edge: the new edge becomes the head of from's outgoing list
\* and of to's incoming list, linking to the previous heads.
add_edge(g, from, to, index) ==
    LET edge_idx == edge_count(g)
        an == NodeAt(g, from)
        bn == NodeAt(g, to)
        edge == [weight |-> index,
                 node |-> [k \in 0..1 |-> IF k = 0 THEN from ELSE to],
                 next |-> [k \in 0..1 |->
                             IF k = 0 THEN an.next[0] ELSE bn.next[1]]]
        relink(h) ==
            [NodeAt(g, h) EXCEPT
                !.next = [k \in 0..1 |->
                            IF (k = 0 /\ h = from) \/ (k = 1 /\ h = to)
                            THEN edge_idx ELSE @[k]]]
    IN Graph([i \in 1..node_count(g) |-> relink(i - 1)],
             Append(g.edges, edge))

(* ----------------------------- the queries ---------------------------- *)

\* petgraph edges_directed / neighbors_directed walk one linked list: from
\* edge e, follow next[k] to the end.  The indices of the edges, in order.
RECURSIVE EdgeList(_, _, _)
EdgeList(g, e, k) ==
    IF e = EdgeEnd THEN <<>>
    ELSE <<e>> \o EdgeList(g, EdgeAt(g, e).next[k], k)

\* self.graph.edges_directed(index, dir): the list headed by the node; a
\* handle out of bounds heads an empty list.
edges_directed(g, index, dir) ==
    IF index \in node_indices(g)
    THEN EdgeList(g, NodeAt(g, index).next[dir], dir)
    ELSE <<>>

\* e.source(), e.target() of an edge reference.
source(g, e) == EdgeAt(g, e).node[0]
target(g, e) == EdgeAt(g, e).node[1]

\* The edge's index taken for the sort key.
edge_id_as_key(g, e) == e

\* e.weight() of an edge reference.
weight(g, e) == EdgeAt(g, e).weight

\* vec.sort_by_key(|e| e.weight()): a stable sort, as an insertion sort
\* that puts each element behind the elements whose key is not larger.
RECURSIVE InsertByKey(_, _, _)

\* The comparison turned round: a sort in descending order.
InsertByKey_descending(g, sorted, e) ==
    IF sorted = <<>> THEN <<e>>
    ELSE IF weight(g, Head(sorted)) >= weight(g, e)
         THEN <<Head(sorted)>> \o InsertByKey(g, Tail(sorted), e)
         ELSE <<e>> \o sorted

InsertByKey(g, sorted, e) ==
    IF sorted = <<>> THEN <<e>>
    ELSE IF weight(g, Head(sorted)) <= weight(g, e)
         THEN <<Head(sorted)>> \o InsertByKey(g, Tail(sorted), e)
         ELSE <<e>> \o sorted

RECURSIVE SortFrom(_, _, _)
SortFrom(g, sorted, rest) ==
    IF rest = <<>> THEN sorted
    ELSE SortFrom(g, InsertByKey(g, sorted, Head(rest)), Tail(rest))

sort_by_key(g, vec) == SortFrom(g, <<>>, vec)

\* The incoming edges as collected, the sort left out.
arguments_edges_unsorted(g, index) == edges_directed(g, index, Incoming)

\* Graph::arguments: the incoming edges, sorted by weight, mapped to their
\* sources.
arguments_edges(g, index) == sort_by_key(g, edges_directed(g, index, Incoming))

arguments(g, index) ==
    LET vec == arguments_edges(g, index)
    IN [i \in 1..Len(vec) |-> source(g, vec[i])]

\* The default direction mistaken for Outgoing.
unwrap_or_outgoing(opt, default) == IF opt = <<>> THEN Outgoing ELSE opt[1]

\* Graph::neighbors: neighbors_directed(index, dir.unwrap_or(Incoming)); the
\* far end of every edge of the list, in list order.  dir is <<>> for None
\* and <<d>> for Some(d).
unwrap_or(opt, default) == IF opt = <<>> THEN default ELSE opt[1]

neighbors(g, index, dir) ==
    LET d == unwrap_or(dir, Incoming)
        es == edges_directed(g, index, d)
    IN [i \in 1..Len(es) |-> EdgeAt(g, es[i]).node[1 - d]]

\* petgraph externals(Outgoing): the nodes, in index order, whose outgoing
\* list is empty.
RECURSIVE ExternalsFrom(_, _, _)
ExternalsFrom(g, h, dir) ==
    IF h >= node_count(g) THEN <<>>
    ELSE (IF NodeAt(g, h).next[dir] = EdgeEnd THEN <<h>> ELSE <<>>)
         \o ExternalsFrom(g, h + 1, dir)

externals(g, dir) == ExternalsFrom(g, 0, dir)

\* The Output nodes without incoming edges: the direction mistaken.
outputs_incoming(g) ==
    SelectSeq(externals(g, Incoming), LAMBDA h : IsOutput(NodeAt(g, h).weight))

\* Graph::outputs: externals(Outgoing) filtered by the Output variant.
outputs(g) ==
    SelectSeq(externals(g, Outgoing), LAMBDA h : IsOutput(NodeAt(g, h).weight))

\* The bounds check with positions counted from 1.
index_panics_one_based(g, index) == index \notin 1 .. (node_count(g) - 1)

\* impl Index: &self.graph[index]; out of bounds is a panic.
index_panics(g, index) == index \notin node_indices(g)

index(g, idx) == NodeAt(g, idx).weight

\* petgraph is_cyclic_directed: a depth-first search from every node in
\* index order that stops at the first back edge (an edge to a node that is
\* discovered and not finished).  The search state is the discovered set,
\* the finished set and whether a back edge was met.
RECURSIVE dfs_visitor(_, _, _), dfs_neighbors(_, _, _)

\* A two-colour search: every edge to a discovered node counts as a back
\* edge, finished or not.
dfs_neighbors_two_colour(g, vs, st) ==
    IF vs = <<>> \/ st.back_edge THEN st
    ELSE LET v == Head(vs) IN
         IF v \notin st.discovered
         THEN dfs_neighbors(g, Tail(vs), dfs_visitor(g, v, st))
         ELSE [st EXCEPT !.back_edge = TRUE]

dfs_visitor(g, u, st) ==
    LET st1 == [st EXCEPT !.discovered = @ \cup {u}]
        st2 == dfs_neighbors(g, neighbors(g, u, <<Outgoing>>), st1)
    IN IF st2.back_edge THEN st2
       ELSE [st2 EXCEPT !.finished = @ \cup {u}]

dfs_neighbors(g, vs, st) ==
    IF vs = <<>> \/ st.back_edge THEN st
    ELSE LET v == Head(vs) IN
         IF v \notin st.discovered
         THEN dfs_neighbors(g, Tail(vs), dfs_visitor(g, v, st))
         ELSE IF v \notin st.finished
              THEN [st EXCEPT !.back_edge = TRUE]
              ELSE dfs_neighbors(g, Tail(vs), st)

RECURSIVE depth_first_search(_, _, _)

\* A search from the first node only.
depth_first_search_first_only(g, start, st) ==
    IF start >= node_count(g) \/ start > 0 THEN st
    ELSE dfs_visitor(g, start, st)

depth_first_search(g, start, st) ==
    IF start >= node_count(g) \/ st.back_edge THEN st
    ELSE depth_first_search(g, start + 1,
            IF start \in st.discovered THEN st ELSE dfs_visitor(g, start, st))

is_cyclic_directed(g) ==
    depth_first_search(g, 0,
        [discovered |-> {}, finished |-> {}, back_edge |-> FALSE]).back_edge

\* Graph::has_cycle
has_cycle(g) == is_cyclic_directed(g)

(* -------------------------- the state machine ------------------------- *)

\* The graph the program holds.
G == Graph(nodes, edges)

\* The node values the builder passes to add_node.
NodeValues == {Add, Output(0, Vec3)}

\* The handles the builder passes to add_edge: every handle add_node can
\* issue within the bound, and one it never issues.
Handles == 0 .. MaxNodes

Slots == 0 .. MaxSlot

\* The threads that query a shared &Graph.
Readers == 1 .. NumReaders

\* A reader that is in no query.
Idle == <<>>

\* No reader holds a shared borrow of the graph.
AllIdle == \A r \in Readers : readers[r] = Idle

\* The consumer is in no walk.
NoWalk == [phase |-> "idle", path |-> <<>>, pending |-> <<>>]

\* No query has returned yet.
NoResult == <<"none">>

\* VulkanApp::run as it enters the event loop: recreate_swapchain is false,
\* previous_frame_end is Some(now(device)), no event was delivered.  The
\* fields at_start, recreated, acquired, drawn and presented record, for the
\* RedrawEventsCleared handled last, the flag at its start and what it did;
\* swapchain counts the swapchains created.
AppInit ==
    [pc |-> "idle",
     recreate_swapchain |-> FALSE,
     previous_frame_end |-> "Some",
     swapchain |-> 0,
     events |-> 0,
     at_start |-> FALSE,
     recreated |-> FALSE,
     acquired |-> FALSE,
     drawn |-> FALSE,
     presented |-> FALSE]

Init ==
    /\ nodes = Default.nodes
    /\ edges = Default.edges
    /\ panicked = FALSE
    /\ issued = {}
    /\ readers = [r \in Readers |-> Idle]
    /\ result = NoResult
    /\ walk = NoWalk
    /\ app = AppInit

\* graph.add_node(node): &mut self, so no reader is in a query.
AddNode(node) ==
    /\ ~panicked
    /\ AllIdle /\ walk = NoWalk
    /\ nodes' = add_node(G, node).nodes
    /\ edges' = add_node(G, node).edges
    /\ issued' = issued \cup {add_node_index(G)}
    /\ UNCHANGED <<panicked, readers, result, walk, app>>

\* graph.add_edge(from, to, index): &mut self, so no reader is in a query.
AddEdge(from, to, idx) ==
    /\ ~panicked
    /\ AllIdle /\ walk = NoWalk
    /\ IF add_edge_panics(G, from, to)
       THEN /\ panicked' = TRUE
            /\ UNCHANGED <<nodes, edges>>
       ELSE /\ nodes' = add_edge(G, from, to, idx).nodes
            /\ edges' = add_edge(G, from, to, idx).edges
            /\ UNCHANGED panicked
    /\ UNCHANGED <<issued, readers, result, walk, app>>

\* The builder: any node value, any handles, any slot, within the bounds.
Next ==
    \/ \E node \in NodeValues : node_count(G) < MaxNodes /\ AddNode(node)
    \/ \E from \in Handles, to \in Handles, idx \in Slots :
          edge_count(G) < MaxEdges /\ AddEdge(from, to, idx)

Spec == Init /\ [][Next]_vars

(* ----------------------------- the readers ---------------------------- *)

\* The queries a reader can issue on g: each query of the API, the handle
\* taking ones with every handle of g and with the first handle out of
\* bounds, neighbors with no direction (Incoming) and with Outgoing.
Queries(g) ==
    {<<"has_cycle">>, <<"outputs">>}
    \cup {<<"arguments", h>> : h \in 0..node_count(g)}
    \cup {<<"index", h>> : h \in 0..node_count(g)}
    \cup {<<"neighbors", h, d>> :
             h \in 0..node_count(g), d \in {<<>>, <<Outgoing>>}}

\* The query panics on g.
QueryPanics(g, q) == q[1] = "index" /\ index_panics(g, q[2])

\* What the query returns on g.
QueryValue(g, q) ==
    CASE q[1] = "has_cycle" -> has_cycle(g)
      [] q[1] = "outputs" -> outputs(g)
      [] q[1] = "arguments" -> arguments(g, q[2])
      [] q[1] = "index" -> index(g, q[2])
      [] q[1] = "neighbors" -> neighbors(g, q[2], q[3])

\* A variant of the query that consumes what it iterates: arguments and
\* neighbors unlink the incoming list of the node as they read it.
after_query_draining(g, q) ==
    IF q[1] \in {"arguments", "neighbors"} /\ q[2] \in node_indices(g)
    THEN Graph([i \in 1..node_count(g) |->
                  IF i - 1 = q[2]
                  THEN [g.nodes[i] EXCEPT
                          !.next = [k \in 0..1 |->
                                      IF k = Incoming THEN EdgeEnd ELSE @[k]]]
                  ELSE g.nodes[i]],
               g.edges)
    ELSE g

\* The graph after the query: every query takes &self and works on
\* iterators and a collected vector of its own, so the graph is as before.
after_query(g, q) == g

\* A reader calls a query: it borrows the graph as it is.
Begin(r, q) ==
    /\ ~panicked
    /\ readers[r] = Idle
    /\ readers' = [readers EXCEPT ![r] = <<q, G>>]
    /\ UNCHANGED <<nodes, edges, panicked, issued, result, walk, app>>

\* The query of reader r runs on the graph and returns (or panics).
End(r) ==
    /\ ~panicked
    /\ readers[r] # Idle
    /\ LET q == readers[r][1] IN
       /\ nodes' = after_query(G, q).nodes
       /\ edges' = after_query(G, q).edges
       /\ IF QueryPanics(G, q)
          THEN panicked' = TRUE /\ UNCHANGED result
          ELSE result' = <<q[1], QueryValue(G, q)>> /\ UNCHANGED panicked
    /\ readers' = [readers EXCEPT ![r] = Idle]
    /\ UNCHANGED <<issued, walk, app>>

(* ---------------------------- the scenario ---------------------------- *)

\* The nodes A, B, C, D of the end-to-end scenario, in the order added.
ScenarioNodes ==
    <<Input(0, Vec3), Input(1, Vec3), Add, Output(0, Vec3)>>

\* Their handles.
A == 0
B == 1
C == 2
D == 3

\* The add_edge calls of the scenario, in order: A -> C slot 0, B -> C
\* slot 1, C -> D slot 0, and then D -> A slot 0.
ScenarioEdges == <<<<A, C, 0>>, <<B, C, 1>>, <<C, D, 0>>, <<D, A, 0>>>>

\* The builder of the scenario: the next call of the script.
ScenarioBuild ==
    IF node_count(G) < Len(ScenarioNodes)
    THEN AddNode(ScenarioNodes[node_count(G) + 1])
    ELSE /\ edge_count(G) < Len(ScenarioEdges)
         /\ LET call == ScenarioEdges[edge_count(G) + 1]
            IN AddEdge(call[1], call[2], call[3])

\* The scenario is built while readers query the graph between the calls.
ScenarioNext ==
    \/ ScenarioBuild
    \/ \E r \in Readers : \E q \in Queries(G) : Begin(r, q)
    \/ \E r \in Readers : End(r)

ScenarioSpec == Init /\ [][ScenarioNext]_vars

(* ------------------------- the backward walk ------------------------- *)

\* The consumer's walk, as the specification describes it: take each handle
\* from outputs(), visit it, and visit recursively every handle arguments()
\* yields for a visited node.  walk.path is the chain of nodes whose visits
\* are open, walk.pending[1] the outputs still to take and
\* walk.pending[i + 1] the arguments of walk.path[i] still to visit.

\* The consumer starts the walk on the graph as built.
StartWalk ==
    /\ ~panicked
    /\ AllIdle /\ walk = NoWalk
    /\ walk' = [phase |-> "walking", path |-> <<>>, pending |-> <<outputs(G)>>]
    /\ UNCHANGED <<nodes, edges, panicked, issued, readers, result, app>>

\* One step of the walk: return from a node whose arguments are all
\* visited (from the last output: the walk is over), or visit the next
\* handle.  A handle that is on walk.path already is reached from itself:
\* its visit opens the same chain of visits again, without end.
WalkStep ==
    /\ walk.phase = "walking"
    /\ LET d == Len(walk.pending)
           top == walk.pending[d]
       IN IF top = <<>>
          THEN IF d = 1
               THEN walk' = NoWalk
               ELSE walk' = [walk EXCEPT !.path = SubSeq(@, 1, d - 2),
                                         !.pending = SubSeq(@, 1, d - 1)]
          ELSE IF \E i \in 1..Len(walk.path) : walk.path[i] = Head(top)
               THEN walk' = [walk EXCEPT !.phase = "diverged"]
               ELSE walk' = [walk EXCEPT
                               !.path = Append(@, Head(top)),
                               !.pending = Append([@ EXCEPT ![d] = Tail(top)],
                                                  arguments(G, Head(top)))]
    /\ UNCHANGED <<nodes, edges, panicked, issued, readers, result, app>>

\* The builder builds any graph within the bounds; the consumer walks it.
WalkNext ==
    \/ \E node \in NodeValues : node_count(G) < MaxNodes /\ AddNode(node)
    \/ \E from \in Handles, to \in Handles, idx \in Slots :
          edge_count(G) < MaxEdges /\ AddEdge(from, to, idx)
    \/ StartWalk
    \/ WalkStep

\* A walk that has started keeps running.
WalkSpec == Init /\ [][WalkNext]_vars /\ WF_vars(WalkStep)

(* --------------------------- VulkanApp::run --------------------------- *)

\* The graph is not touched by the event loop.
GraphUnchanged == UNCHANGED <<nodes, edges, panicked, issued, readers, result, walk>>

\* The event loop delivers an event when the handler is not running.
Delivers == app.pc = "idle" /\ app.events < MaxEvents

\* WindowEvent::CloseRequested: *control_flow = ControlFlow::Exit.
CloseRequested ==
    /\ Delivers
    /\ app' = [app EXCEPT !.pc = "exit", !.events = @ + 1]
    /\ GraphUnchanged

\* WindowEvent::Resized(_): recreate_swapchain = true.
Resized ==
    /\ Delivers
    /\ app' = [app EXCEPT !.recreate_swapchain = TRUE, !.events = @ + 1]
    /\ GraphUnchanged

\* Any other event: _ => ().
OtherEvent ==
    /\ Delivers
    /\ app' = [app EXCEPT !.events = @ + 1]
    /\ GraphUnchanged

\* Event::RedrawEventsCleared, up to the test of recreate_swapchain:
\* previous_frame_end.as_mut().unwrap() panics on None.
RedrawEventsCleared ==
    /\ Delivers
    /\ app' = [app EXCEPT
                 !.events = @ + 1,
                 !.at_start = app.recreate_swapchain,
                 !.recreated = FALSE,
                 !.acquired = FALSE,
                 !.drawn = FALSE,
                 !.presented = FALSE,
                 !.pc = IF app.previous_frame_end = "None" THEN "panicked"
                        ELSE IF app.recreate_swapchain THEN "recreate"
                        ELSE "acquire"]
    /\ GraphUnchanged

\* self.swapchain.recreate(..): Ok installs the new swapchain and
\* framebuffers and clears the flag; ImageExtentNotSupported returns from
\* the handler; any other error panics.
Recreate(outcome) ==
    /\ app.pc = "recreate"
    /\ app' = CASE outcome = "Ok" ->
                     [app EXCEPT !.swapchain = @ + 1,
                                 !.recreate_swapchain = FALSE,
                                 !.recreated = TRUE,
                                 !.pc = "acquire"]
                [] outcome = "ImageExtentNotSupported" ->
                     [app EXCEPT !.pc = "idle"]
                [] outcome = "Err" ->
                     [app EXCEPT !.pc = "panicked"]
    /\ GraphUnchanged

\* acquire_next_image(..): Ok yields an image, with suboptimal setting the
\* flag; OutOfDate sets the flag and returns; any other error panics.
Acquire(outcome) ==
    /\ app.pc = "acquire"
    /\ app' = CASE outcome = "Ok" ->
                     [app EXCEPT !.acquired = TRUE, !.pc = "draw"]
                [] outcome = "Suboptimal" ->
                     [app EXCEPT !.acquired = TRUE,
                                 !.recreate_swapchain = TRUE,
                                 !.pc = "draw"]
                [] outcome = "OutOfDate" ->
                     [app EXCEPT !.recreate_swapchain = TRUE, !.pc = "idle"]
                [] outcome = "Err" ->
                     [app EXCEPT !.pc = "panicked"]
    /\ GraphUnchanged

\* The command buffer is built and the callback records the draw; the
\* unwrap of the builder or of build() panics on an error.
Draw(outcome) ==
    /\ app.pc = "draw"
    /\ app' = IF outcome = "Ok"
              THEN [app EXCEPT !.drawn = TRUE, !.pc = "flush"]
              ELSE [app EXCEPT !.pc = "panicked"]
    /\ GraphUnchanged

\* The Err(e) arm without its assignment: previous_frame_end stays taken.
after_flush_err_forgets(outcome, flag) ==
    [recreate_swapchain |-> IF outcome = "OutOfDate" THEN TRUE ELSE flag,
     previous_frame_end |-> IF outcome = "Err" THEN "None" ELSE "Some"]

\* match future: Ok keeps the frame's future; OutOfDate sets the flag and
\* Err(e) prints; both of them put Some(now(device)) back.
after_flush(outcome, flag) ==
    [recreate_swapchain |-> IF outcome = "OutOfDate" THEN TRUE ELSE flag,
     previous_frame_end |-> "Some"]

\* previous_frame_end.take().unwrap() .. then_signal_fence_and_flush() and
\* the match on its result: the handler is done.  The unwrap of
\* then_execute panics on an error, previous_frame_end taken.
Flush(outcome) ==
    /\ app.pc = "flush"
    /\ app' = IF app.previous_frame_end = "None"
              THEN [app EXCEPT !.pc = "panicked"]
              ELSE IF outcome = "ExecErr"
              THEN [app EXCEPT !.pc = "panicked", !.previous_frame_end = "None"]
              ELSE [app EXCEPT
                      !.presented = (outcome = "Ok"),
                      !.recreate_swapchain =
                          after_flush(outcome, app.recreate_swapchain).recreate_swapchain,
                      !.previous_frame_end =
                          after_flush(outcome, app.recreate_swapchain).previous_frame_end,
                      !.pc = "idle"]
    /\ GraphUnchanged

VulkanNext ==
    \/ CloseRequested
    \/ Resized
    \/ OtherEvent
    \/ RedrawEventsCleared
    \/ \E outcome \in {"Ok", "ImageExtentNotSupported", "Err"} : Recreate(outcome)
    \/ \E outcome \in {"Ok", "Suboptimal", "OutOfDate", "Err"} : Acquire(outcome)
    \/ \E outcome \in {"Ok", "Err"} : Draw(outcome)
    \/ \E outcome \in {"Ok", "OutOfDate", "Err", "ExecErr"} : Flush(outcome)

VulkanSpec == Init /\ [][VulkanNext]_vars

(* ------------------------- the edge relation -------------------------- *)

\* The calls that built the edge vector: <<from, to, slot>> per edge, in
\* insertion order.
EdgeTriples(g) ==
    [i \in 1..edge_count(g) |->
        <<g.edges[i].node[0], g.edges[i].node[1], g.edges[i].weight>>]

\* The node values, by handle.
NodeWeights(g) == [i \in 1..node_count(g) |-> g.nodes[i].weight]

\* The positions (1-based) in the edge vector of the edges out of / into h.
OutEdges(g, h) == {i \in 1..edge_count(g) : g.edges[i].node[0] = h}
InEdges(g, h) == {i \in 1..edge_count(g) : g.edges[i].node[1] = h}

\* There is an edge a -> b.
EdgeRel(g, a, b) == \E i \in 1..edge_count(g) :
                        g.edges[i].node[0] = a /\ g.edges[i].node[1] = b

\* A nonempty directed cycle: a closed walk w[1] -> ... -> w[k] -> w[1] of
\* k >= 1 edges (k = 1 is a self-loop).
HasDirectedCycle(g) ==
    \E k \in 1..node_count(g) :
        \E w \in [1..k -> node_indices(g)] :
            \A i \in 1..k : EdgeRel(g, w[i], w[(i % k) + 1])

\* The elements of a sequence.
Range(seq) == {seq[i] : i \in 1..Len(seq)}

(* ------------------------------ C1 ------------------------------------ *)

\* C1: in every graph add_node and add_edge can build, has_cycle() is true
\* exactly when the edge relation has a nonempty directed cycle (a
\* self-loop included); a graph without edges has none.
C1_HasCycleIffDirectedCycle ==
    /\ has_cycle(G) <=> HasDirectedCycle(G)
    /\ edges = <<>> => ~has_cycle(G)

\* A cycle through three nodes and nothing shorter is found.
C1_Witness ==
    /\ has_cycle(G)
    /\ edge_count(G) = 3
    /\ \A a \in node_indices(G), b \in node_indices(G) :
           ~(EdgeRel(G, a, b) /\ EdgeRel(G, b, a))

(* ------------------------------ C2 ------------------------------------ *)

\* C2: outputs() yields exactly the nodes added with variant Output that
\* have no outgoing edge, each once: a sink of another variant is not
\* yielded, and an Output node that is the source of any edge (a self-loop
\* included) is not yielded.
C2_OutputsAreOutputSinks ==
    /\ Range(outputs(G)) =
          {h \in issued : IsOutput(NodeWeights(G)[h + 1]) /\ OutEdges(G, h) = {}}
    /\ Len(outputs(G)) = Cardinality(Range(outputs(G)))

\* An Output node with a self-loop only, a sink of another variant and an
\* Output sink: only the last is yielded.
C2_Witness ==
    /\ node_count(G) = 3
    /\ Len(outputs(G)) = 1
    /\ \E h \in issued : /\ IsOutput(index(G, h))
                         /\ OutEdges(G, h) # {}
                         /\ \A i \in OutEdges(G, h) : edges[i].node[1] = h
    /\ \E h \in issued : ~IsOutput(index(G, h)) /\ OutEdges(G, h) = {}

(* ------------------------------ C3 ------------------------------------ *)

\* The bijections from 1..n onto the set S (of n elements).
Bijections(n, S) == {p \in [1..n -> S] : \A i, j \in 1..n : p[i] = p[j] => i = j}

\* C3: arguments(n) yields one source per edge into n, the parallel edges
\* included, in an order in which the weights of those edges do not
\* decrease.
C3_ArgumentsSortedSources ==
    \A n \in issued :
        LET args == arguments(G, n) IN
        /\ Len(args) = Cardinality(InEdges(G, n))
        /\ \E p \in Bijections(Len(args), InEdges(G, n)) :
              /\ \A i \in 1..Len(args) : args[i] = edges[p[i]].node[0]
              /\ \A i \in 1..(Len(args) - 1) :
                    edges[p[i]].weight <= edges[p[i + 1]].weight

\* Edges of weights 2, 0, 1 into one node from three sources C, A, B, added
\* in that order: the arguments are <<A, B, C>>.
C3_Witness ==
    \E n \in issued :
        /\ edge_count(G) = 3
        /\ \A i \in 1..3 : edges[i].node[1] = n
        /\ <<edges[1].weight, edges[2].weight, edges[3].weight>> = <<2, 0, 1>>
        /\ Cardinality({edges[i].node[0] : i \in 1..3}) = 3
        /\ arguments(G, n) = <<edges[2].node[0], edges[3].node[0], edges[1].node[0]>>

(* ------------------------------ C4 ------------------------------------ *)

\* The graph a builder gets from add_node of the values ws, in order.
RECURSIVE AddNodes(_, _)
AddNodes(g, ws) ==
    IF ws = <<>> THEN g ELSE AddNodes(add_node(g, Head(ws)), Tail(ws))

\* ... followed by add_edge of the calls <<from, to, slot>>, in order.
RECURSIVE AddEdges(_, _)
AddEdges(g, calls) ==
    IF calls = <<>> THEN g
    ELSE AddEdges(add_edge(g, Head(calls)[1], Head(calls)[2], Head(calls)[3]),
                  Tail(calls))

Rebuild(ws, calls) == AddEdges(AddNodes(Default, ws), calls)

\* The orders in which m calls can be issued.
CallOrders(m) == Bijections(m, 1..m)

\* The graph of the same nodes and the same add_edge calls, issued in the
\* order p.
Reordered(p) ==
    Rebuild(NodeWeights(G), [i \in 1..edge_count(G) |-> EdgeTriples(G)[p[i]]])

\* No two edges into n carry the same slot.
DistinctSlots(g, n) ==
    \A i, j \in InEdges(g, n) : g.edges[i].weight = g.edges[j].weight => i = j

\* C4 as stated: issuing the same add_edge calls in another order gives the
\* same arguments(n), for every node n.
C4_AnyOrderSameArguments ==
    \A p \in CallOrders(edge_count(G)) :
        \A n \in issued : arguments(Reordered(p), n) = arguments(G, n)

\* C4, amended: issuing the same add_edge calls in another order gives the
\* same arguments(n) for every node n into which no two edges carry the
\* same slot.
C4_AnyOrderSameArgumentsDistinctSlots ==
    \A p \in CallOrders(edge_count(G)) :
        \A n \in issued :
            DistinctSlots(G, n) => arguments(Reordered(p), n) = arguments(G, n)

\* Three edges of distinct slots 1, 2, 0 into one node from three sources:
\* the arguments follow the slots, in whatever order the edges are added.
C4_Witness ==
    \E n \in issued :
        /\ edge_count(G) = 3
        /\ \A i \in 1..3 : edges[i].node[1] = n
        /\ EdgeTriples(G)[1][3] = 1 /\ EdgeTriples(G)[2][3] = 2
        /\ EdgeTriples(G)[3][3] = 0
        /\ Cardinality({edges[i].node[0] : i \in 1..3}) = 3
        /\ \A p \in CallOrders(3) :
              arguments(Reordered(p), n)
                 = <<edges[3].node[0], edges[1].node[0], edges[2].node[0]>>

(* ------------------------------ C5 ------------------------------------ *)

\* C5: the handle add_node(v) returns denotes v at once, and every step
\* leaves every issued handle issued, in bounds and denoting the value it
\* denoted before.
C5_HandlesStable ==
    [][/\ \A h \in issued : /\ h \in issued'
                            /\ ~index_panics(G', h)
                            /\ index(G', h) = index(G, h)
       /\ \A v \in NodeValues :
              AddNode(v) => \A h \in issued' \ issued :
                                ~index_panics(G', h) /\ index(G', h) = v]_vars

\* Three handles denoting values of both variants, three edges added.
C5_Witness ==
    /\ issued = {0, 1, 2}
    /\ edge_count(G) = 3
    /\ index(G, 0) = Output(0, Vec3)
    /\ index(G, 1) = Add
    /\ index(G, 2) = Output(0, Vec3)

(* ------------------------------ C6 ------------------------------------ *)

\* No edge names h.
Unnamed(g, h) == InEdges(g, h) = {} /\ OutEdges(g, h) = {}

\* arguments and neighbors, in both directions, yield nothing for h.
Isolated(g, h) ==
    /\ arguments(g, h) = <<>>
    /\ neighbors(g, h, <<>>) = <<>>
    /\ neighbors(g, h, <<Incoming>>) = <<>>
    /\ neighbors(g, h, <<Outgoing>>) = <<>>

\* C6: add_node does not fail and returns a handle that was not issued
\* before; the new node, and every node as long as no edge names it, has no
\* arguments and no neighbors.
C6_AddNodeFreshIsolated ==
    [][/\ \A v \in NodeValues :
              AddNode(v) =>
                  /\ ~panicked'
                  /\ add_node_index(G) \notin issued
                  /\ issued' = issued \cup {add_node_index(G)}
                  /\ Isolated(G', add_node_index(G))
       /\ \A h \in issued' : Unnamed(G', h) => Isolated(G', h)]_vars

\* A node no edge names, next to a node that three edges name.
C6_Witness ==
    /\ edge_count(G) = 3
    /\ \E h \in issued : Unnamed(G, h) /\ Isolated(G, h)
    /\ \E h \in issued : ~Unnamed(G, h) /\ ~Isolated(G, h)

(* ------------------------------ C8 ------------------------------------ *)

\* C8: add_node appends one node and changes no node and no edge; add_edge
\* with issued handles does not fail and appends the edge <<from, to, slot>>,
\* whatever the slot, the variants and the edges present, and changes no
\* node and no other edge; no step removes or alters a node or an edge.
C8_GraphOnlyGrows ==
    [][/\ \A v \in NodeValues :
              AddNode(v) => /\ NodeWeights(G') = Append(NodeWeights(G), v)
                            /\ EdgeTriples(G') = EdgeTriples(G)
       /\ \A from \in issued, to \in issued, idx \in Slots :
              /\ ~add_edge_panics(G, from, to)
              /\ AddEdge(from, to, idx) =>
                    /\ ~panicked'
                    /\ EdgeTriples(G') = Append(EdgeTriples(G), <<from, to, idx>>)
                    /\ NodeWeights(G') = NodeWeights(G)
       /\ node_count(G') >= node_count(G)
       /\ edge_count(G') >= edge_count(G)
       /\ SubSeq(NodeWeights(G'), 1, node_count(G)) = NodeWeights(G)
       /\ SubSeq(EdgeTriples(G'), 1, edge_count(G)) = EdgeTriples(G)]_vars

\* A second edge with the endpoints and the slot of the first, and a
\* self-loop: all three are in the graph.
C8_Witness ==
    /\ edge_count(G) = 3
    /\ EdgeTriples(G)[1] = EdgeTriples(G)[2]
    /\ EdgeTriples(G)[1][1] # EdgeTriples(G)[1][2]
    /\ EdgeTriples(G)[3][1] = EdgeTriples(G)[3][2]

(* ------------------------------ C7 ------------------------------------ *)

\* C7: in the scenario (nodes A, B, C, D; edges A -> C slot 0, B -> C slot
\* 1, C -> D slot 0) has_cycle() is false, outputs() yields <<D>>,
\* arguments(D) yields <<C>> and arguments(C) yields <<A, B>>; add_edge(D,
\* A, 0) is then accepted, and has_cycle() is true after it.
C7_Scenario ==
    /\ (NodeWeights(G) = ScenarioNodes /\ EdgeTriples(G) = SubSeq(ScenarioEdges, 1, 3))
          => /\ ~has_cycle(G)
             /\ outputs(G) = <<D>>
             /\ arguments(G, D) = <<C>>
             /\ arguments(G, C) = <<A, B>>
    /\ (NodeWeights(G) = ScenarioNodes /\ EdgeTriples(G) = ScenarioEdges)
          => has_cycle(G)
    /\ edge_count(G) <= 3 => ~has_cycle(G)

\* The graph was validated (has_cycle() returned false), the edge D -> A
\* was added all the same, and the graph has a cycle.
C7_Witness ==
    /\ NodeWeights(G) = ScenarioNodes
    /\ EdgeTriples(G) = ScenarioEdges
    /\ result = <<"has_cycle", FALSE>>
    /\ has_cycle(G)
    /\ ~panicked

(* ------------------------------ C9 ------------------------------------ *)

\* Reader r is in a query.
InQuery(r) == readers[r] # Idle

AtLeaf(w) ==
    /\ w.phase = "walking"
    /\ w.path # <<>>
    /\ w.pending[Len(w.pending)] = <<>>

\* C10: a walk on a graph for which has_cycle() is false comes to its end,
\* every branch of a walk ends at a node without incoming edges, and a
\* walk runs without end only on a graph for which has_cycle() is true.
C10_WalkTerminatesIfAcyclic ==
    /\ (walk.phase = "walking" /\ ~has_cycle(G)) ~> (walk = NoWalk)
    /\ [][(Len(walk'.path) = Len(walk.path) + 1 /\ AtLeaf(walk'))
             => InEdges(G, walk'.path[Len(walk'.path)]) = {}]_vars
    /\ [](walk.phase = "diverged" => has_cycle(G))

\* On a graph without cycle the walk went from an output over its argument
\* to the argument of that, which has no incoming edge.
C10_Witness ==
    /\ ~has_cycle(G)
    /\ AtLeaf(walk)
    /\ Len(walk.path) = 3
    /\ InEdges(G, walk.path[3]) = {}

\* On a graph with a cycle a walk from an output runs without end.
C10_WalkDiverges == walk.phase = "diverged" /\ has_cycle(G)

(* ------------------------------ C11 ----------------------------------- *)

\* C11 as stated: add_edge with a handle that add_node has not issued on
\* this graph is not rejected and inserts the edge like any other call.
C11_UnissuedHandleInserted ==
    [][\A from \in Handles, to \in Handles, idx \in Slots :
          (AddEdge(from, to, idx) /\ (from \notin issued \/ to \notin issued))
             => /\ ~panicked'
                /\ EdgeTriples(G') = Append(EdgeTriples(G), <<from, to, idx>>)]_vars

\* C11, amended: Graph::add_edge checks nothing itself, but the wrapped
\* add_edge rejects a handle that add_node has not issued on this graph:
\* the call panics and inserts nothing.  A call with issued handles is not
\* rejected and inserts the edge.
C11_UnissuedHandlePanics ==
    [][/\ issued = node_indices(G)
       /\ \A from \in Handles, to \in Handles, idx \in Slots :
             AddEdge(from, to, idx) =>
                IF from \in issued /\ to \in issued
                THEN /\ ~panicked'
                     /\ EdgeTriples(G') = Append(EdgeTriples(G), <<from, to, idx>>)
                ELSE /\ panicked'
                     /\ G' = G]_vars

\* Two edges were inserted; a third call, with a handle never issued, ended
\* in a panic and the graph still has the two edges.
C11_Witness ==
    /\ panicked
    /\ edge_count(G) = 2
    /\ node_count(G) = 2

(* ------------------------------ C12 ----------------------------------- *)

\* C12: graph[h] with a handle add_node has not issued on this graph is a
\* panic that yields no value; with an issued handle it yields the node
\* value stored under h.
C12_IndexPanicsOrReturnsNode ==
    [][\A r \in Readers :
          (InQuery(r) /\ ~InQuery(r)' /\ readers[r][1][1] = "index") =>
             LET h == readers[r][1][2] IN
             IF h \in issued
             THEN /\ ~panicked'
                  /\ result' = <<"index", NodeWeights(G)[h + 1]>>
                  /\ result'[2] = ScenarioNodes[h + 1]
             ELSE /\ panicked'
                  /\ result' = result]_vars

\* graph[D] returned the Output node; a later lookup with a handle never
\* issued panicked.
C12_Witness ==
    /\ panicked
    /\ result = <<"index", Output(0, Vec3)>>
    /\ node_count(G) = 4

(* ------------------------------ C13 ----------------------------------- *)

\* How often x occurs in the sequence.
Count(seq, x) == Cardinality({i \in 1..Len(seq) : seq[i] = x})

\* C13: neighbors(n, Incoming) yields the source of every edge into n and
\* neighbors(n, Outgoing) the target of every edge out of n, one entry per
\* edge; with no direction neighbors is neighbors(n, Incoming), which has
\* the entries of arguments(n); a is among neighbors(b, Incoming) exactly
\* when b is among neighbors(a, Outgoing).
C13_NeighborsByDirection ==
    \A n \in issued :
        /\ \A a \in issued :
              /\ Count(neighbors(G, n, <<Incoming>>), a)
                    = Cardinality({i \in InEdges(G, n) : edges[i].node[0] = a})
              /\ Count(neighbors(G, n, <<Outgoing>>), a)
                    = Cardinality({i \in OutEdges(G, n) : edges[i].node[1] = a})
              /\ Count(neighbors(G, n, <<>>), a) = Count(arguments(G, n), a)
              /\ a \in Range(neighbors(G, n, <<Incoming>>))
                    <=> n \in Range(neighbors(G, a, <<Outgoing>>))
        /\ Range(neighbors(G, n, <<Incoming>>)) \subseteq issued
        /\ Range(neighbors(G, n, <<Outgoing>>)) \subseteq issued
        /\ neighbors(G, n, <<>>) = neighbors(G, n, <<Incoming>>)

\* A node with two parallel edges from one source and one edge to another
\* node: the source twice with no direction, the target once with Outgoing.
C13_Witness ==
    \E n \in issued, a \in issued, b \in issued :
        /\ a # b /\ a # n /\ b # n
        /\ neighbors(G, n, <<>>) = <<a, a>>
        /\ neighbors(G, n, <<Outgoing>>) = <<b>>

(* ------------------------------ C14 ----------------------------------- *)

\* The serde form of a node value: the variant's name and its fields.
ser_node(node) == [variant |-> node[1], fields |-> Tail(node)]

de_node(x) == <<x.variant>> \o x.fields

\* Serialize for the wrapped graph: the node values in handle order and the
\* edges, as <<source, target, weight>>, in edge order.
serialize(g) ==
    [nodes |-> [i \in 1..node_count(g) |-> ser_node(g.nodes[i].weight)],
     node_holes |-> <<>>,
     edge_property |-> "directed",
     edges |-> [i \in 1..edge_count(g) |->
                  <<g.edges[i].node[0], g.edges[i].node[1], g.edges[i].weight>>]]

\* The edges linked oldest first: the vectors are as read, but every edge
\* list runs in the order opposite to the one add_edge builds.
link_edges_oldest_first(g, es) ==
    LET m == Len(es)
        r == AddEdges(g, [i \in 1..m |-> es[m + 1 - i]])
        remap(e) == IF e = EdgeEnd THEN EdgeEnd ELSE m - 1 - e
    IN Graph([i \in 1..node_count(r) |->
                [r.nodes[i] EXCEPT !.next = [k \in 0..1 |-> remap(@[k])]]],
             [i \in 1..m |->
                [r.edges[m + 1 - i] EXCEPT !.next = [k \in 0..1 |-> remap(@[k])]]])

\* petgraph link_edges: the edges read are linked into the lists of their
\* endpoints one by one in edge order, as add_edge links them.
RECURSIVE link_edges(_, _)
link_edges(g, es) ==
    IF es = <<>> THEN g
    ELSE link_edges(add_edge(g, Head(es)[1], Head(es)[2], Head(es)[3]), Tail(es))

\* Deserialize fails when an edge names a node that is not there.
deserialize_fails(ser) ==
    \E i \in 1..Len(ser.edges) :
        (IF ser.edges[i][1] >= ser.edges[i][2]
         THEN ser.edges[i][1] ELSE ser.edges[i][2]) >= Len(ser.nodes)

\* Deserialize for the wrapped graph: the nodes read, with empty edge lists,
\* and the edges read, linked.
deserialize(ser) ==
    link_edges(
        Graph([i \in 1..Len(ser.nodes) |->
                 [weight |-> de_node(ser.nodes[i]),
                  next |-> [k \in 0..1 |-> EdgeEnd]]],
              <<>>),
        ser.edges)

\* C14: deserialize(serialize(g)) succeeds and has the node count, the edge
\* count, the node value under every handle and the edges (source, target,
\* weight) of g, and has_cycle, outputs, arguments and graph[h] give on it
\* what they give on g.
C14_SerializeRoundTrip ==
    LET g2 == deserialize(serialize(G)) IN
    /\ ~deserialize_fails(serialize(G))
    /\ node_count(g2) = node_count(G)
    /\ edge_count(g2) = edge_count(G)
    /\ NodeWeights(g2) = NodeWeights(G)
    /\ EdgeTriples(g2) = EdgeTriples(G)
    /\ has_cycle(g2) = has_cycle(G)
    /\ outputs(g2) = outputs(G)
    /\ \A h \in issued : /\ arguments(g2, h) = arguments(G, h)
                         /\ ~index_panics(g2, h)
                         /\ index(g2, h) = index(G, h)

\* A graph with an Output node and two edges of one slot into one node from
\* two sources, where the order of the arguments rests on the order of the
\* edge list: the round trip gives the same graph.
C14_Witness ==
    /\ edge_count(G) = 3
    /\ \E h \in issued : IsOutput(index(G, h))
    /\ \E n \in issued : \E i, j \in InEdges(G, n) :
          /\ edges[i].weight = edges[j].weight
          /\ edges[i].node[0] # edges[j].node[0]
    /\ deserialize(serialize(G)) = G

(* ------------------------------ C15 ----------------------------------- *)

\* C15: add_node leaves has_cycle() as it is, and no step takes has_cycle()
\* from true to false: only add_edge changes it, from false to true.
C15_CycleStatusMonotone ==
    [][/\ has_cycle(G) => has_cycle(G')
       /\ \A v \in NodeValues : AddNode(v) => (has_cycle(G') <=> has_cycle(G))
       /\ (has_cycle(G') # has_cycle(G))
             => \E from \in issued, to \in issued, idx \in Slots :
                    AddEdge(from, to, idx)]_vars

\* The first edge closed a cycle; two more edges and a node came after it,
\* and has_cycle() is still true.
C15_Witness ==
    /\ has_cycle(G)
    /\ node_count(G) = 3
    /\ edge_count(G) = 3
    /\ EdgeTriples(G)[1][1] = EdgeTriples(G)[1][2]
    /\ ~has_cycle(Rebuild(NodeWeights(G), SubSeq(EdgeTriples(G), 2, 3)))

(* ------------------------------ C16 ----------------------------------- *)

\* C16: in a RedrawEventsCleared that starts with recreate_swapchain set, an
\* image is acquired, drawn or presented only after the swapchain was
\* recreated, which clears the flag; when recreate fails with
\* ImageExtentNotSupported or acquire with OutOfDate the handler returns,
\* the flag set and nothing drawn; Resized, a suboptimal acquire and an
\* OutOfDate flush set the flag, and nothing else but an OutOfDate acquire
\* does; previous_frame_end is Some whenever an event is delivered.
C16_RecreateBeforeDraw ==
    [][/\ (app'.at_start /\ (app'.acquired \/ app'.drawn \/ app'.presented))
             => app'.recreated
       /\ Recreate("Ok") => (~app'.recreate_swapchain /\ app'.recreated)
       /\ (Recreate("ImageExtentNotSupported") \/ Acquire("OutOfDate"))
             => /\ app'.pc = "idle"
                /\ app'.recreate_swapchain
                /\ ~(app'.acquired \/ app'.drawn \/ app'.presented)
       /\ (Resized \/ Acquire("Suboptimal") \/ Flush("OutOfDate"))
             => app'.recreate_swapchain
       /\ (~app.recreate_swapchain /\ app'.recreate_swapchain)
             => \/ Resized \/ Acquire("Suboptimal")
                \/ Acquire("OutOfDate") \/ Flush("OutOfDate")
       /\ app'.pc = "idle" => app'.previous_frame_end = "Some"]_vars

\* After a Resized, a RedrawEventsCleared recreated the swapchain, acquired
\* a suboptimal image, drew and presented it: the flag is set again.
C16_Witness ==
    /\ app.pc = "idle"
    /\ app.at_start /\ app.recreated /\ app.presented
    /\ app.recreate_swapchain
    /\ app.swapchain = 1
    /\ app.events = 2

====
